---- MODULE Spec2Model ----
(***************************************************************************)
(* Model of compare.py: the pixel coverage scan (analyze_pixels), the edge *)
(* and chain statistics (get_generated_stats) and the batch driver (main). *)
(*                                                                         *)
(* Numbers that the code rounds with toFixed(d) are kept as integers       *)
(* scaled by 10^d: coveragePct in hundredths of a percent, quadrant        *)
(* percentages and edgeDensity/avgChain in tenths.  A JavaScript number is *)
(* a record [kind, val] with kind "num", "nan" or "inf", so that 0/0 is    *)
(* the not-a-number value the browser produces and not a value chosen here.*)
(***************************************************************************)
EXTENDS Integers, Sequences, FiniteSets, TLC

VARIABLES
    \* analyze_pixels: one scan of one decoded screenshot
    w, h, x, y, px, whiteTotal, quadrants, quadrantTotals, apc, result,
    \* get_generated_stats: the loop over TEST_INPUTS
    ti, results,
    \* main
    pc, REF_FILES, ri, gi, files, ref_stats, avg_ref_coverage,
    avg_ref_quadrants, gen_stats, gen_coverages, avg_gen_coverage, diff,
    label, gen_quads_all, avg_gen_quads, exc, log

scanVars == <<w, h, x, y, px, whiteTotal, quadrants, quadrantTotals, apc, result>>
statVars == <<ti, results>>
mainVars == <<pc, REF_FILES, ri, gi, files, ref_stats, avg_ref_coverage,
              avg_ref_quadrants, gen_stats, gen_coverages, avg_gen_coverage,
              diff, label, gen_quads_all, avg_gen_quads, exc, log>>
vars == <<scanVars, statVars, mainVars>>

-----------------------------------------------------------------------------
(* Bounds of the model *)

MaxW == 5
MaxH == 2
MaxPanels == 2
MaxPaths == 4
MaxRefs == 2

(* Program constants *)

qCols == 4
qRows == 2
Threshold == 128
\* ROWS and COLS are globals of the page; line 147 gives ROWS * COLS = 85
\* nodes and line 148 gives ROWS * (COLS - 1) = 80 and (ROWS - 1) * COLS = 68.
ROWS == 5
COLS == 17
TEST_INPUTS ==
    <<"HELLO WORLD", "THE QUICK BROWN FOX JUM", "ABCDEFGHIJKLM", "1234567890">>

-----------------------------------------------------------------------------
(* JavaScript numbers *)

Num(v) == [kind |-> "num", val |-> v]
NaN == [kind |-> "nan", val |-> 0]
Infinity == [kind |-> "inf", val |-> 0]

Min(a, b) == IF a < b THEN a ELSE b
Abs(a) == IF a < 0 THEN -a ELSE a

Pow10(d) == IF d = 0 THEN 1 ELSE IF d = 1 THEN 10 ELSE 100

\* +(num / den).toFixed(d) for integers num >= 0, den >= 0, as an integer
\* scaled by 10^d.  toFixed picks the nearest multiple of 10^-d and the larger
\* one on a tie.  0/0 is NaN and n/0 is Infinity; toFixed prints them as "NaN"
\* and "Infinity" and the unary + reads them back unchanged.
ToFixed(num, den, d) ==
    IF den = 0
    THEN (IF num = 0 THEN NaN ELSE Infinity)
    ELSE Num((2 * num * Pow10(d) + den) \div (2 * den))

\* Variant without the factor 100 (a fraction instead of a percentage).
PctFixedNoScale(num, den, d) == ToFixed(num, den, d)

\* +(num / den * 100).toFixed(d)
PctFixed(num, den, d) == ToFixed(num * 100, den, d)

-----------------------------------------------------------------------------
(* analyze_pixels *)

\* The RGBA values a decoded pixel is drawn from: black, white, three greys
\* whose channel mean is exactly the threshold (one of them transparent, one
\* with unequal channels), the first grey above it, and transparent white.
Pixels ==
    { [r |-> 0,   g |-> 0,   b |-> 0,   a |-> 255],
      [r |-> 255, g |-> 255, b |-> 255, a |-> 255],
      [r |-> 128, g |-> 128, b |-> 128, a |-> 255],
      [r |-> 128, g |-> 128, b |-> 128, a |-> 0],
      [r |-> 127, g |-> 128, b |-> 129, a |-> 255],
      [r |-> 129, g |-> 128, b |-> 128, a |-> 255],
      [r |-> 255, g |-> 255, b |-> 255, a |-> 0] }

NoPixel == [r |-> 0, g |-> 0, b |-> 0, a |-> 0]

\* Variant with a non-strict comparison.
IsWhiteGe(p) == IF p.r + p.g + p.b >= 3 * Threshold THEN 1 ELSE 0

\* brightness = (data[i] + data[i+1] + data[i+2]) / 3; isWhite = brightness > 128.
\* The sum of three bytes is exact and s/3 > 128 iff s > 3*128.
IsWhite(p) == IF p.r + p.g + p.b > 3 * Threshold THEN 1 ELSE 0

\* Variant rounding up, which can give the index n.
QuadIndexCeil(pos, size, n) == Min((pos * n + size - 1) \div size, n)

\* Math.min(Math.floor(pos / size * n), n - 1).  For the grid sizes 2 and 4
\* the product by n is exact and pos/size is never within rounding distance
\* of a multiple of 1/n unless it equals it, so the floor is that of the
\* exact quotient pos*n/size.
QuadIndex(pos, size, n) == Min((pos * n) \div size, n - 1)

ZeroMatrix == [qr \in 0 .. qRows - 1 |-> [qc \in 0 .. qCols - 1 |-> 0]]

\* m[qr][qc] += inc.  (An index outside the grid leaves the matrix as it is.)
Bump(m, qr, qc, inc) == [m EXCEPT ![qr][qc] = @ + inc]

\* One iteration of the loop body, lines 80-87, on accumulators
\* acc = [whiteTotal, quadrants, quadrantTotals].
ScanPixel(acc, p, cx, cy, cw, ch) ==
    LET isWhite == IsWhite(p)
        qr == QuadIndex(cy, ch, qRows)
        qc == QuadIndex(cx, cw, qCols)
    IN  [whiteTotal     |-> acc.whiteTotal + isWhite,
         quadrants      |-> Bump(acc.quadrants, qr, qc, isWhite),
         quadrantTotals |-> Bump(acc.quadrantTotals, qr, qc, 1)]

\* quadrantPct, lines 91-93
QuadrantPct(q, qt) ==
    [qr \in 0 .. qRows - 1 |->
        [qc \in 0 .. qCols - 1 |-> PctFixed(q[qr][qc], qt[qr][qc], 1)]]

\* The returned object, lines 95-102
Report(cw, ch, acc) ==
    [width            |-> cw,
     height           |-> ch,
     totalPixels      |-> cw * ch,
     whitePixels      |-> acc.whiteTotal,
     coveragePct      |-> PctFixed(acc.whiteTotal, cw * ch, 2),
     quadrantCoverage |-> QuadrantPct(acc.quadrants, acc.quadrantTotals)]

NoReport == [width |-> 0, height |-> 0, totalPixels |-> 0, whitePixels |-> 0,
             coveragePct |-> Num(0), quadrantCoverage |-> <<>>]

Acc == [whiteTotal |-> whiteTotal, quadrants |-> quadrants,
        quadrantTotals |-> quadrantTotals]

ScanIdle ==
    /\ w = 0 /\ h = 0 /\ x = 0 /\ y = 0 /\ px = NoPixel
    /\ whiteTotal = 0 /\ quadrants = ZeroMatrix /\ quadrantTotals = ZeroMatrix
    /\ apc = "idle" /\ result = NoReport

StatIdle == ti = 0 /\ results = <<>>

\* A Python float that is a quotient of integers, or the exception the
\* division raised.
Ratio(n, d) == [exc |-> "none", num |-> n, den |-> d]
None == [isNone |-> TRUE, m |-> <<>>]
Some(m) == [isNone |-> FALSE, m |-> m]

MainIdle ==
    /\ pc = "idle" /\ REF_FILES = <<>> /\ ri = 0 /\ gi = 0 /\ files = <<>>
    /\ ref_stats = <<>> /\ avg_ref_coverage = Ratio(0, 1)
    /\ avg_ref_quadrants = None
    /\ gen_stats = <<>> /\ gen_coverages = <<>> /\ avg_gen_coverage = Ratio(0, 1)
    /\ diff = Ratio(0, 1) /\ label = "" /\ gen_quads_all = <<>>
    /\ avg_gen_quads = None /\ exc = "none" /\ log = <<>>

\* State at line 78, before the first iteration: the canvas has the image's
\* size (a decoded PNG has at least one pixel each way) and the counters are 0.
InitScan ==
    /\ w \in 1 .. MaxW
    /\ h \in 1 .. MaxH
    /\ x = 0 /\ y = 0 /\ px = NoPixel
    /\ whiteTotal = 0
    /\ quadrants = ZeroMatrix
    /\ quadrantTotals = ZeroMatrix
    /\ apc = "scan"
    /\ result = NoReport
    /\ StatIdle
    /\ MainIdle

\* One iteration of the nested loops, lines 78-89.  Each index of data is read
\* exactly once, so the pixel's channels are drawn when it is read.
Scan ==
    /\ apc = "scan"
    /\ y < h
    /\ \E p \in Pixels :
        LET acc == ScanPixel(Acc, p, x, y, w, h)
        IN  /\ px' = p
            /\ whiteTotal' = acc.whiteTotal
            /\ quadrants' = acc.quadrants
            /\ quadrantTotals' = acc.quadrantTotals
    /\ IF x + 1 < w
       THEN x' = x + 1 /\ y' = y
       ELSE x' = 0 /\ y' = y + 1
    /\ UNCHANGED <<w, h, apc, result, statVars, mainVars>>

\* Loop exit and the return statement, lines 91-102.
Return ==
    /\ apc = "scan"
    /\ y >= h
    /\ result' = Report(w, h, Acc)
    /\ apc' = "done"
    /\ UNCHANGED <<w, h, x, y, px, whiteTotal, quadrants, quadrantTotals,
                   statVars, mainVars>>

NextScan == Scan \/ Return

Spec == InitScan /\ [][NextScan]_vars

-----------------------------------------------------------------------------
(* Properties of analyze_pixels *)

Cells == (0 .. qRows - 1) \X (0 .. qCols - 1)

RECURSIVE SumCells(_, _)
SumCells(m, S) ==
    IF S = {} THEN 0
    ELSE LET c == CHOOSE c \in S : TRUE
         IN  m[c[1]][c[2]] + SumCells(m, S \ {c})

\* C1: every pixel scanned so far has been added to exactly one cell of the
\* 2 x 4 grid, so the per-cell totals sum to the number of pixels scanned and,
\* after the scan, to totalPixels = width * height, divisible or not.
PartitionExact ==
    apc \in {"scan", "done"} =>
        /\ SumCells(quadrantTotals, Cells) = y * w + x
        /\ \A c \in Cells : quadrantTotals[c[1]][c[2]] >= 0
        /\ apc = "done" =>
            /\ result.totalPixels = w * h
            /\ SumCells(quadrantTotals, Cells) = result.totalPixels

PartitionWitness ==
    /\ apc = "done" /\ w = 5 /\ h = 1
    /\ SumCells(quadrantTotals, Cells) = 5

\* C2: the returned coveragePct is a number between 0 and 100 and differs
\* from whitePixels / totalPixels * 100 by at most 0.01 (one hundredth).
CoveragePctExact ==
    apc = "done" =>
        /\ result.coveragePct.kind = "num"
        /\ 0 <= result.coveragePct.val /\ result.coveragePct.val <= 10000
        /\ Abs(result.coveragePct.val * result.totalPixels
               - result.whitePixels * 10000) <= result.totalPixels

\* 1 white pixel of 3: 33.333...% is reported as 33.33.
CoveragePctWitness ==
    /\ apc = "done" /\ result.totalPixels = 3 /\ result.whitePixels = 1
    /\ result.coveragePct = Num(3333)

\* C3: every entry of quadrantCoverage is a number in [0, 100], and a cell
\* that received no pixel reports 0.
EmptyCellIsZero ==
    apc = "done" =>
        \A c \in Cells :
            LET e == result.quadrantCoverage[c[1]][c[2]]
            IN  /\ e.kind = "num"
                /\ 0 <= e.val /\ e.val <= 1000
                /\ quadrantTotals[c[1]][c[2]] = 0 => e = Num(0)

\* The average of the reported entries weighted by the cells' pixel counts,
\* sum(entry * count) / totalPixels, as JavaScript arithmetic gives it: NaN
\* as soon as one entry is NaN (NaN * 0 is NaN).  The numerator is in tenths.
WeightedSum(rep, qt) ==
    IF \E c \in Cells : rep.quadrantCoverage[c[1]][c[2]].kind # "num"
    THEN NaN
    ELSE Num(SumCells([qr \in 0 .. qRows - 1 |-> [qc \in 0 .. qCols - 1 |->
                 rep.quadrantCoverage[qr][qc].val * qt[qr][qc]]], Cells))

\* C8: the pixel-count-weighted average of quadrantCoverage equals coveragePct
\* within the two roundings, 0.05 + 0.005.
WeightedAverageMatches ==
    apc = "done" =>
        LET ws == WeightedSum(result, quadrantTotals)
        IN  /\ ws.kind = "num"
            /\ 2 * Abs(10 * ws.val - result.coveragePct.val * result.totalPixels)
                   <= 11 * result.totalPixels

\* C9: an iteration adds 1 to whiteTotal when the channel sum R+G+B of the
\* pixel it read exceeds 3 * 128 and 0 otherwise, whatever its alpha, and the
\* report's whitePixels is the counter.
WhiteIffAboveThreshold ==
    [][ /\ (apc = "scan" /\ <<x, y>>' # <<x, y>>) =>
            whiteTotal' - whiteTotal =
                (IF px'.r + px'.g + px'.b > 384 THEN 1 ELSE 0)
        /\ (apc = "scan" /\ apc' = "done") => result'.whitePixels = whiteTotal
      ]_vars

\* A transparent grey of mean exactly 128 was read first and not counted.
ThresholdWitness ==
    /\ apc = "scan" /\ SumCells(quadrantTotals, Cells) = 1
    /\ px = [r |-> 128, g |-> 128, b |-> 128, a |-> 0]
    /\ whiteTotal = 0

-----------------------------------------------------------------------------
(* get_generated_stats *)

\* A panel's grid: the slots at which getH / getV answer true, and dEdges.
HSlots == (0 .. ROWS - 1) \X (0 .. COLS - 2)
VSlots == (0 .. ROWS - 2) \X (0 .. COLS - 1)

getH(grid, r, c) == <<r, c>> \in grid.H
getV(grid, r, c) == <<r, c>> \in grid.V

\* A grid with every horizontal and vertical edge and 64 diagonal-slot edges
\* (arcs and diagonals alternating), and a grid with five edges.
FullGrid ==
    [H |-> HSlots, V |-> VSlots,
     dEdges |-> [i \in 1 .. 64 |-> [type |-> IF i % 2 = 1 THEN "arc" ELSE "diag"]]]

SparseGrid ==
    [H |-> {<<0, 0>>, <<0, 1>>}, V |-> {<<3, 16>>},
     dEdges |-> <<[type |-> "arc"], [type |-> "diag"]>>]

\* TextEncoder_.encode(text): n >= 1 panels, the odd ones full, the even ones
\* sparse.
Grids(n) == [i \in 1 .. n |-> IF i % 2 = 1 THEN FullGrid ELSE SparseGrid]

\* The d attribute of a path, character by character; hasD is false for a
\* path element without the attribute (getAttribute returns null).
PathHVL ==
    [hasD |-> TRUE,
     d |-> <<"M", "0", " ", "0", "H", "1", "0", "V", "1", "0", "L", "5", " ", "5">>]
PathMoveOnly == [hasD |-> TRUE, d |-> <<"M", "0", " ", "0">>]
PathCurve ==
    [hasD |-> TRUE,
     d |-> <<"M", "1", " ", "1", "C", "2", " ", "2", " ", "3", " ", "3", " ", "4",
             " ", "4", "l", "1", " ", "1">>]
PathNoD == [hasD |-> FALSE, d |-> <<>>]

PathKinds == <<PathHVL, PathMoveOnly, PathCurve, PathNoD>>

\* doc.querySelectorAll('path') of the rendered SVG: m path elements.
Paths(m) == [j \in 1 .. m |-> PathKinds[((j - 1) % Len(PathKinds)) + 1]]

RECURSIVE SumSeq(_)
SumSeq(s) == IF s = <<>> THEN 0 ELSE s[1] + SumSeq(Tail(s))

RECURSIVE MaxSeq(_)
MaxSeq(s) ==
    IF Len(s) = 1 THEN s[1]
    ELSE LET m == MaxSeq(Tail(s)) IN IF s[1] > m THEN s[1] ELSE m

\* Lines 120-132: the four counters over all grids.
CountH(grids) ==
    SumSeq([i \in 1 .. Len(grids) |->
        Cardinality({s \in HSlots : getH(grids[i], s[1], s[2])})])
CountV(grids) ==
    SumSeq([i \in 1 .. Len(grids) |->
        Cardinality({s \in VSlots : getV(grids[i], s[1], s[2])})])
CountArc(grids) ==
    SumSeq([i \in 1 .. Len(grids) |->
        Cardinality({k \in DOMAIN grids[i].dEdges : grids[i].dEdges[k].type = "arc"})])
CountDiag(grids) ==
    SumSeq([i \in 1 .. Len(grids) |->
        Cardinality({k \in DOMAIN grids[i].dEdges : grids[i].dEdges[k].type # "arc"})])

\* Line 142: (d.match(/[HVLC]/g) || []).length with d = getAttribute('d') || ''
Segs(p) ==
    LET d == IF p.hasD THEN p.d ELSE <<>>
    IN  Cardinality({k \in DOMAIN d : d[k] \in {"H", "V", "L", "C"}})

RECURSIVE DropZeros(_)
DropZeros(s) ==
    IF s = <<>> THEN <<>>
    ELSE (IF s[1] = 0 THEN <<>> ELSE <<s[1]>>) \o DropZeros(Tail(s))

\* Variant that keeps only the paths with at least one segment command.
ChainLengthsNonEmpty(paths) == DropZeros([j \in 1 .. Len(paths) |-> Segs(paths[j])])

\* Lines 138-144: one entry is pushed for every path.
ChainLengths(paths) == [j \in 1 .. Len(paths) |-> Segs(paths[j])]

maxEdges == 80 + 68 + 64

\* Lines 146-166: the object returned for one text.
Stats(text, grids, paths) ==
    LET hCount == CountH(grids)
        vCount == CountV(grids)
        arcCount == CountArc(grids)
        diagCount == CountDiag(grids)
        chainLengths == ChainLengths(paths)
        totalEdges == hCount + vCount + arcCount + diagCount
    IN  [text         |-> text,
         panels       |-> Len(grids),
         hEdges       |-> hCount,
         vEdges       |-> vCount,
         arcs         |-> arcCount,
         diags        |-> diagCount,
         totalEdges   |-> totalEdges,
         edgeDensity  |-> PctFixed(totalEdges, maxEdges, 1),
         pathCount    |-> Len(paths),
         chainLengths |-> chainLengths,
         avgChain     |-> IF Len(chainLengths) > 0
                          THEN ToFixed(SumSeq(chainLengths), Len(chainLengths), 1)
                          ELSE Num(0),
         maxChain     |-> IF Len(chainLengths) > 0 THEN MaxSeq(chainLengths) ELSE 0,
         svg          |-> paths]

\* Line 112: results = {}
InitStats ==
    /\ ti = 1
    /\ results = <<>>
    /\ ScanIdle
    /\ MainIdle

\* One iteration of the loop over TEST_INPUTS, lines 113-168.  results keeps
\* the insertion order of the dict.
EvaluateText ==
    /\ ti \in 1 .. Len(TEST_INPUTS)
    /\ \E n \in 1 .. MaxPanels, m \in 0 .. MaxPaths :
        results' = Append(results, Stats(TEST_INPUTS[ti], Grids(n), Paths(m)))
    /\ ti' = ti + 1
    /\ UNCHANGED <<scanVars, mainVars>>

NextStats == EvaluateText

SpecStats == InitStats /\ [][NextStats]_vars

-----------------------------------------------------------------------------
(* Properties of get_generated_stats *)

\* C4: totalEdges is the sum of the four counts, does not exceed
\* maxPossibleEdges (the density denominator), and edgeDensity is in [0, 100].
EdgeTotalsBounded ==
    \A i \in DOMAIN results :
        LET s == results[i]
        IN  /\ s.totalEdges = s.hEdges + s.vEdges + s.arcs + s.diags
            /\ s.totalEdges <= maxEdges
            /\ s.edgeDensity.kind = "num"
            /\ 0 <= s.edgeDensity.val /\ s.edgeDensity.val <= 1000

\* Number of segment commands of a path, counted command by command.
RECURSIVE SegCommands(_)
SegCommands(d) ==
    IF d = <<>> THEN 0
    ELSE (IF Head(d) = "H" \/ Head(d) = "V" \/ Head(d) = "L" \/ Head(d) = "C"
          THEN 1 ELSE 0) + SegCommands(Tail(d))

-----------------------------------------------------------------------------
(* main *)

\* A decoded screenshot: w x h pixels, row-major.  The browser's screenshots
\* are 1840 x 507; the model's are 5 x 2 with the first k pixels white,
\* which gives coverages of 0, 10.00 and 20.00 percent.
White == [r |-> 255, g |-> 255, b |-> 255, a |-> 255]
Black == [r |-> 0, g |-> 0, b |-> 0, a |-> 255]
Image(k) == [w |-> 5, h |-> 2, data |-> [i \in 1 .. 10 |-> IF i <= k THEN White ELSE Black]]
Images == {Image(0), Image(1), Image(2)}

\* The loops of lines 78-89 over a whole buffer, pixel i = y * w + x.
RECURSIVE ScanFrom(_, _, _)
ScanFrom(img, i, acc) ==
    IF i >= img.w * img.h THEN acc
    ELSE ScanFrom(img, i + 1,
                  ScanPixel(acc, img.data[i + 1], i % img.w, i \div img.w, img.w, img.h))

\* analyze_pixels(page, png_path) on the screenshot stored at png_path
AnalyzePixels(img) ==
    Report(img.w, img.h,
           ScanFrom(img, 0, [whiteTotal |-> 0, quadrants |-> ZeroMatrix,
                             quadrantTotals |-> ZeroMatrix]))

\* png_path of a sample: ref_<stem>.png, gen_<text>.png (distinct per sample)
RefPath(i) == <<"ref", i>>
GenPath(i) == <<"gen", i>>

\* render_svg_to_png: page.screenshot(path) writes (or overwrites) the file
WriteFile(fs, path, img) == (path :> img) @@ fs

\* Variant inserting at the front.
PushFront(list, v) == <<v>> \o list

\* list.append
Push(list, v) == Append(list, v)

\* Python's a / b on numbers: ZeroDivisionError when b is 0
PyDiv(n, d) ==
    IF d = 0 THEN [exc |-> "ZeroDivisionError", num |-> 0, den |-> 1]
    ELSE Ratio(n, d)

\* Variant without the test for an empty list.
AvgCoverageUnguarded(xs) == PyDiv(SumSeq(xs), Len(xs))

\* sum(xs) / len(xs) if xs else 0, lines 196 and 240 (xs in hundredths)
AvgCoverage(xs) == IF Len(xs) > 0 THEN PyDiv(SumSeq(xs), Len(xs)) ELSE Ratio(0, 1)

\* Python's round(n / d, 1) on tenths: nearest, ties to even
RoundHalfEven(n, d) ==
    LET q == n \div d
        r == n % d
    IN  IF 2 * r > d THEN q + 1
        ELSE IF 2 * r < d THEN q
        ELSE q + (q % 2)

\* Lines 199-205 and 260-266: elementwise mean of the quadrant matrices qs
AvgQuadrants(qs) ==
    [qr \in 0 .. qRows - 1 |-> [qc \in 0 .. qCols - 1 |->
        RoundHalfEven(SumSeq([i \in 1 .. Len(qs) |-> qs[i][qr][qc].val]), Len(qs))]]

\* Line 248: avg_gen_coverage - avg_ref_coverage
Sub(a, b) == Ratio(a.num * b.den - b.num * a.den, a.den * b.den)

\* Variant with a non-strict comparison.
LabelGe(d) == IF d.num >= 0 THEN "denser" ELSE "sparser"

\* Line 250: 'denser' if diff > 0 else 'sparser'
Label(d) == IF d.num > 0 THEN "denser" ELSE "sparser"

Event(op, set, i) == [op |-> op, set |-> set, idx |-> i]

\* State at line 181: REF_FILES is what the glob found (possibly nothing).
InitMain ==
    /\ pc = "ref_loop"
    /\ REF_FILES \in {[i \in 1 .. n |-> i] : n \in 0 .. MaxRefs}
    /\ ri = 1 /\ gi = 1
    /\ files = <<>>
    /\ ref_stats = <<>>
    /\ avg_ref_coverage = Ratio(0, 1)
    /\ avg_ref_quadrants = None
    /\ gen_stats = <<>>
    /\ gen_coverages = <<>>
    /\ avg_gen_coverage = Ratio(0, 1)
    /\ diff = Ratio(0, 1)
    /\ label = ""
    /\ gen_quads_all = <<>>
    /\ avg_gen_quads = None
    /\ exc = "none"
    /\ log = <<>>
    /\ ScanIdle
    /\ StatIdle

\* Lines 182-185: the next reference file is rendered to its screenshot.
RenderRef ==
    /\ pc = "ref_loop"
    /\ ri <= Len(REF_FILES)
    /\ \E img \in Images : files' = WriteFile(files, RefPath(ri), img)
    /\ log' = Append(log, Event("render", "ref", ri))
    /\ pc' = "ref_analyze"
    /\ UNCHANGED <<REF_FILES, ri, gi, ref_stats, avg_ref_coverage,
                   avg_ref_quadrants, gen_stats, gen_coverages,
                   avg_gen_coverage, diff, label, gen_quads_all,
                   avg_gen_quads, exc, scanVars, statVars>>

\* Lines 186-188
AnalyzeRef ==
    /\ pc = "ref_analyze"
    /\ LET stats == AnalyzePixels(files[RefPath(ri)])
       IN  ref_stats' = Push(ref_stats, [name |-> REF_FILES[ri], stats |-> stats])
    /\ log' = Append(log, Event("analyze", "ref", ri))
    /\ ri' = ri + 1
    /\ pc' = "ref_loop"
    /\ UNCHANGED <<REF_FILES, gi, files, avg_ref_coverage, avg_ref_quadrants,
                   gen_stats, gen_coverages, avg_gen_coverage, diff, label,
                   gen_quads_all, avg_gen_quads, exc, scanVars, statVars>>

\* Lines 195-205 after the loop; an exception ends the run.
AverageRef ==
    /\ pc = "ref_loop"
    /\ ri > Len(REF_FILES)
    /\ LET avg == AvgCoverage([i \in 1 .. Len(ref_stats) |->
                                  ref_stats[i].stats.coveragePct.val])
       IN  /\ avg_ref_coverage' = avg
           /\ exc' = avg.exc
           /\ pc' = IF avg.exc = "none" THEN "gen_stats" ELSE "raised"
           /\ avg_ref_quadrants' =
                IF avg.exc = "none" /\ Len(ref_stats) > 0
                THEN Some(AvgQuadrants([i \in 1 .. Len(ref_stats) |->
                                           ref_stats[i].stats.quadrantCoverage]))
                ELSE None
    /\ UNCHANGED <<REF_FILES, ri, gi, files, ref_stats, gen_stats,
                   gen_coverages, avg_gen_coverage, diff, label,
                   gen_quads_all, avg_gen_quads, log, scanVars, statVars>>

\* Lines 218-220.  gen_stats keeps the texts in insertion order; the statistics
\* of each text are those of SpecStats, and main hands each text's svg to the
\* renderer, whose screenshot is drawn at RenderGen.
GetGeneratedStats ==
    /\ pc = "gen_stats"
    /\ gen_stats' = TEST_INPUTS
    /\ gen_coverages' = <<>>
    /\ pc' = "gen_loop"
    /\ UNCHANGED <<REF_FILES, ri, gi, files, ref_stats, avg_ref_coverage,
                   avg_ref_quadrants, avg_gen_coverage, diff, label,
                   gen_quads_all, avg_gen_quads, exc, log, scanVars, statVars>>

\* Lines 221-224
RenderGen ==
    /\ pc = "gen_loop"
    /\ gi <= Len(gen_stats)
    /\ \E img \in Images : files' = WriteFile(files, GenPath(gi), img)
    /\ log' = Append(log, Event("render", "gen", gi))
    /\ pc' = "gen_analyze"
    /\ UNCHANGED <<REF_FILES, ri, gi, ref_stats, avg_ref_coverage,
                   avg_ref_quadrants, gen_stats, gen_coverages,
                   avg_gen_coverage, diff, label, gen_quads_all,
                   avg_gen_quads, exc, scanVars, statVars>>

\* Lines 225-226
AnalyzeGen ==
    /\ pc = "gen_analyze"
    /\ LET p == AnalyzePixels(files[GenPath(gi)])
       IN  gen_coverages' = Push(gen_coverages, p.coveragePct.val)
    /\ log' = Append(log, Event("analyze", "gen", gi))
    /\ gi' = gi + 1
    /\ pc' = "gen_loop"
    /\ UNCHANGED <<REF_FILES, ri, files, ref_stats, avg_ref_coverage,
                   avg_ref_quadrants, gen_stats, avg_gen_coverage, diff, label,
                   gen_quads_all, avg_gen_quads, exc, scanVars, statVars>>

\* Lines 240-254: the summary, then the test of avg_ref_quadrants.
Compare ==
    /\ pc = "gen_loop"
    /\ gi > Len(gen_stats)
    /\ LET avg == AvgCoverage(gen_coverages)
       IN  /\ avg_gen_coverage' = avg
           /\ exc' = avg.exc
           /\ IF avg.exc = "none"
              THEN /\ diff' = Sub(avg, avg_ref_coverage)
                   /\ label' = Label(Sub(avg, avg_ref_coverage))
                   /\ pc' = IF avg_ref_quadrants.isNone THEN "done" ELSE "quad_loop"
              ELSE /\ pc' = "raised"
                   /\ UNCHANGED <<diff, label>>
    /\ gi' = 1
    /\ gen_quads_all' = <<>>
    /\ UNCHANGED <<REF_FILES, ri, files, ref_stats, avg_ref_coverage,
                   avg_ref_quadrants, gen_stats, gen_coverages, avg_gen_quads,
                   log, scanVars, statVars>>

\* Lines 255-258: every generated screenshot is analyzed a second time.
ReanalyzeGen ==
    /\ pc = "quad_loop"
    /\ gi <= Len(gen_stats)
    /\ LET p == AnalyzePixels(files[GenPath(gi)])
       IN  gen_quads_all' = Push(gen_quads_all, p.quadrantCoverage)
    /\ log' = Append(log, Event("analyze", "gen", gi))
    /\ gi' = gi + 1
    /\ UNCHANGED <<pc, REF_FILES, ri, files, ref_stats, avg_ref_coverage,
                   avg_ref_quadrants, gen_stats, gen_coverages,
                   avg_gen_coverage, diff, label, avg_gen_quads, exc,
                   scanVars, statVars>>

\* Lines 259-273
AverageGenQuads ==
    /\ pc = "quad_loop"
    /\ gi > Len(gen_stats)
    /\ avg_gen_quads' = IF Len(gen_quads_all) > 0
                        THEN Some(AvgQuadrants(gen_quads_all)) ELSE None
    /\ pc' = "done"
    /\ UNCHANGED <<REF_FILES, ri, gi, files, ref_stats, avg_ref_coverage,
                   avg_ref_quadrants, gen_stats, gen_coverages,
                   avg_gen_coverage, diff, label, gen_quads_all, exc, log,
                   scanVars, statVars>>

NextMain ==
    \/ RenderRef \/ AnalyzeRef \/ AverageRef \/ GetGeneratedStats
    \/ RenderGen \/ AnalyzeGen \/ Compare \/ ReanalyzeGen \/ AverageGenQuads

SpecMain == InitMain /\ [][NextMain]_vars

-----------------------------------------------------------------------------
(* Properties of main *)

RefCoverages == [i \in 1 .. Len(ref_stats) |-> ref_stats[i].stats.coveragePct.val]

AfterRefLoop == pc \in {"gen_stats", "gen_loop", "gen_analyze", "quad_loop", "done", "raised"}

\* C6 as stated: averaging an empty set of reference reports fails with an
\* EmptyInputError and no mean of 0 reaches the comparison.
EmptyInputFails ==
    (AfterRefLoop /\ Len(REF_FILES) = 0) =>
        /\ exc = "EmptyInputError"
        /\ pc = "raised"

\* C6 amended: with no reference file nothing is raised; the reference mean
\* is 0, the run goes on, and the comparison's difference is the generated
\* mean minus 0; the quadrant comparison is skipped.
EmptyInputAveragesToZero ==
    (AfterRefLoop /\ Len(REF_FILES) = 0) =>
        /\ exc = "none"
        /\ pc # "raised"
        /\ avg_ref_coverage.num = 0
        /\ avg_ref_quadrants.isNone
        /\ pc # "quad_loop"
        /\ pc = "done" =>
            /\ diff.num * 4 = SumSeq(gen_coverages) * diff.den
            /\ label = (IF SumSeq(gen_coverages) > 0 THEN "denser" ELSE "sparser")
            /\ gen_quads_all = <<>>

\* No reference file, generated mean 10.00: the difference is +10.00.
EmptyInputWitness ==
    /\ pc = "done" /\ Len(REF_FILES) = 0
    /\ gen_coverages = <<1000, 1000, 1000, 1000>>
    /\ diff.num = 1000 * diff.den
    /\ label = "denser"

\* C7: with both sets non-empty the two aggregates are the arithmetic means of
\* the samples' coveragePct, diff is generated minus reference, and the label
\* is "denser" exactly when diff > 0 and "sparser" otherwise, 0 included.
DiffLabel ==
    (pc = "done" /\ Len(REF_FILES) > 0) =>
        LET sg == SumSeq(gen_coverages)
            ng == Len(gen_coverages)
            sr == SumSeq(RefCoverages)
            nr == Len(ref_stats)
        IN  /\ ng = Len(TEST_INPUTS) /\ nr = Len(REF_FILES)
            /\ avg_gen_coverage.den > 0 /\ avg_ref_coverage.den > 0 /\ diff.den > 0
            /\ avg_gen_coverage.num * ng = sg * avg_gen_coverage.den
            /\ avg_ref_coverage.num * nr = sr * avg_ref_coverage.den
            /\ diff.num * (ng * nr) = (sg * nr - sr * ng) * diff.den
            /\ label = "denser" <=> sg * nr > sr * ng
            /\ label = "sparser" <=> sg * nr <= sr * ng

\* Reference 10.00 and 20.00 average to 15.00; the generated samples average
\* to 15.00 too, and the difference of exactly 0 is labelled "sparser".
DiffLabelWitness ==
    /\ pc = "done"
    /\ Len(ref_stats) = 2 /\ RefCoverages = <<1000, 2000>>
    /\ avg_ref_coverage.num = 1500 * avg_ref_coverage.den
    /\ gen_coverages = <<1000, 2000, 2000, 1000>>
    /\ diff.num = 0
    /\ label = "sparser"

Rendered(a) == log[a].op = "render"
Analyzed(a) == log[a].op = "analyze"

\* C10 as stated: samples are handled one at a time in input order, no sample
\* is analyzed after a later sample of its set has been rendered, and the
\* results are in sample order.
NoAnalysisAfterLaterSample ==
    /\ \A a \in DOMAIN log : \A b \in DOMAIN log :
        (a < b /\ Rendered(a) /\ Analyzed(b) /\ log[a].set = log[b].set)
            => log[b].idx >= log[a].idx
    /\ \A i \in DOMAIN ref_stats : ref_stats[i].name = REF_FILES[i]

\* The k-th sample of the batch: the reference files, then the texts.
Sample(k) ==
    IF k <= Len(REF_FILES) THEN <<"ref", k>> ELSE <<"gen", k - Len(REF_FILES)>>

NumSamples == Len(REF_FILES) + Len(TEST_INPUTS)

\* C10 amended: in the two loops each sample is rendered and then analyzed
\* before the next one is rendered, in input order, and the results are in
\* sample order; after the summary, when there are reference quadrant
\* averages, every generated screenshot is analyzed once more, in input
\* order, after all samples have been rendered.
SequentialThenReanalysis ==
    /\ \A k \in DOMAIN log :
        IF k <= 2 * NumSamples
        THEN LET smp == Sample((k + 1) \div 2)
             IN  log[k] = Event(IF k % 2 = 1 THEN "render" ELSE "analyze",
                                smp[1], smp[2])
        ELSE /\ ~avg_ref_quadrants.isNone
             /\ log[k] = Event("analyze", "gen", k - 2 * NumSamples)
    /\ Len(log) <= 2 * NumSamples + Len(TEST_INPUTS)
    /\ \A i \in DOMAIN ref_stats :
        /\ ref_stats[i].name = REF_FILES[i]
        /\ ref_stats[i].stats = AnalyzePixels(files[RefPath(i)])
    /\ \A i \in DOMAIN gen_coverages :
        gen_coverages[i] = AnalyzePixels(files[GenPath(i)]).coveragePct.val
    /\ \A i \in DOMAIN gen_quads_all :
        gen_quads_all[i] = AnalyzePixels(files[GenPath(i)]).quadrantCoverage
    /\ pc \in {"ref_loop", "ref_analyze"} => Len(ref_stats) = ri - 1
    /\ pc \in {"gen_loop", "gen_analyze"} => Len(gen_coverages) = gi - 1
    /\ pc = "quad_loop" => Len(gen_quads_all) = gi - 1

\* Two different reference screenshots and four generated ones, all analyzed
\* in order, and the first generated one analyzed again after the last render.
SequentialWitness ==
    /\ pc = "quad_loop" /\ gi = 2
    /\ Len(REF_FILES) = 2
    /\ RefCoverages = <<2000, 0>>
    /\ gen_coverages = <<0, 1000, 2000, 1000>>
    /\ log[Len(log)] = Event("analyze", "gen", 1)
    /\ log[Len(log) - 1] = Event("analyze", "gen", 4)

====
